---- MODULE Spec2Model ----
(***************************************************************************)
(* Viscum agent runtime: the agent loop with tool-call reconciliation.     *)
(*                                                                         *)
(*   ToolCallProcessor  (createToolMessages, findLastAIMessageWithTools,   *)
(*                       processMessages, validateToolCalls)               *)
(*   ToolExecutor       (executeTools)                                     *)
(*   Node               (execute, getMessageList, getLLMWithTools,         *)
(*                       handleFinalResponse)                              *)
(*   AgentWorkflow      (the conditional edge of the compiled graph)       *)
(*   ChatManager        (processUserInput, run)                            *)
(*                                                                         *)
(* A message is a record [type, content, tool_calls, tool_call_id].  The   *)
(* identity of a message object (Array.includes compares references) is    *)
(* its position: <<"h", i>> is the i-th message of the history and         *)
(* <<"n", j>> the j-th ToolMessage created for the current step.           *)
(***************************************************************************)
EXTENDS Integers, Sequences, FiniteSets, TLC

\* ------------------------------------------------------------------ bounds
MaxTurns == 2       \* user turns of one chat session
MaxRounds == 2      \* model responses with tool calls within one turn
MaxCalls == 2       \* tool-call requests in one model response
MaxHist == 3        \* messages of a history built for the reconciler alone
MaxBatch == 2       \* ToolResult records handed to the reconciler alone
MaxBody == 3        \* messages in the body of a request to the chat route
MaxRegs == 3        \* register calls on the tool registry
MaxPairRounds == 1  \* responses with tool calls in a request that runs next to another

\* --------------------------------------------------------------- constants
\* names the model may ask for; only the Registered ones are in toolRegistry
ToolNames == {"search", "ghost"}
Registered == {"search"}
\* what a registered tool's execute does with one call: resolve or reject
Outcomes == {"ok", "throw"}
\* the agent prompt of the environment is configured
HasSystemPrompt == TRUE

\* logger.error logs and then throws an Error (return type never)
LoggerErrorThrows == TRUE

\* ---------------------------------------------------------------- messages
NoId == 0
SystemMessage == [type |-> "system", content |-> "prompt", tool_calls |-> <<>>, tool_call_id |-> NoId]
HumanMessage == [type |-> "human", content |-> "user", tool_calls |-> <<>>, tool_call_id |-> NoId]
AIMessage(content, calls) == [type |-> "ai", content |-> content, tool_calls |-> calls, tool_call_id |-> NoId]
ToolMessage(content, id) == [type |-> "tool", content |-> content, tool_calls |-> <<>>, tool_call_id |-> id]

IsAIWithTools(msg) == msg.type = "ai" /\ Len(msg.tool_calls) > 0
IsToolMessage(msg) == msg.type = "tool" /\ msg.tool_call_id # NoId

EmptyState == [messages |-> <<>>, toolCalls |-> <<>>, toolResults |-> <<>>]

\* mutant: the update takes the place of the history
messagesReplaced(x, y) == y

\* reducers of AgentState
messagesReducer(x, y) == x \o y
replaceReducer(x, y, given) == IF given THEN y ELSE x

Range(s) == {s[i] : i \in 1..Len(s)}

NoMessage == [type |-> "none", content |-> "", tool_calls |-> <<>>, tool_call_id |-> NoId]
SetMax(S) == CHOOSE m \in S : \A n \in S : n <= m

\* ------------------------------------------------------- ToolCallProcessor
\* typeof result === "string" ? result : JSON.stringify(result, null, 2)
Serialize(result) ==
  IF result.kind = "str" THEN result.v
  ELSE IF result.kind = "err" THEN "{error: " \o result.v \o "}"
  ELSE "{value: " \o result.v \o "}"

\* scan from the end for an AIMessage with a non-empty tool_calls
RECURSIVE FindLastFrom(_, _)
FindLastFrom(messages, i) ==
  IF i < 1 THEN NoMessage
  ELSE IF IsAIWithTools(messages[i]) THEN messages[i]
  ELSE FindLastFrom(messages, i - 1)

\* mutant: the first AIMessage with tool calls is taken instead of the last
FindFirstAIMessageWithTools(messages) ==
  LET S == {i \in 1..Len(messages) : IsAIWithTools(messages[i])}
  IN IF S = {} THEN NoMessage ELSE messages[CHOOSE i \in S : \A j \in S : i <= j]

FindLastAIMessageWithTools(messages) == FindLastFrom(messages, Len(messages))

\* toolResults.forEach((toolResult, index) => ...): a record whose index has
\* no tool call (or a tool call without id) is warned about and dropped
RECURSIVE CreateFrom(_, _, _)
CreateFrom(toolResults, lastAI, index) ==
  IF index > Len(toolResults) THEN <<>>
  ELSE IF index > Len(lastAI.tool_calls) \/ lastAI.tool_calls[index].id = NoId
       THEN CreateFrom(toolResults, lastAI, index + 1)
       ELSE <<ToolMessage(Serialize(toolResults[index].result), lastAI.tool_calls[index].id)>>
            \o CreateFrom(toolResults, lastAI, index + 1)

\* mutant: a tool call of the AIMessage that has no record gets an empty
\* ToolMessage
CreateToolMessagesPadded(toolResults, lastAI) ==
  IF lastAI.type = "none" THEN <<>>
  ELSE CreateFrom(toolResults, lastAI, 1)
         \o [k \in 1..(Len(lastAI.tool_calls) - Len(toolResults)) |->
               ToolMessage("", lastAI.tool_calls[Len(toolResults) + k].id)]

CreateToolMessages(toolResults, lastAI) ==
  IF lastAI.type = "none" THEN <<>> ELSE CreateFrom(toolResults, lastAI, 1)

\* toolMessageMap.get(id): Map.set keeps the last writer; the history is
\* written first, the new ToolMessages after it
NoRef == <<"none", 0>>
ToolMessageMapGet(messages, newToolMessages, id) ==
  LET N == {j \in 1..Len(newToolMessages) : newToolMessages[j].tool_call_id = id /\ id # NoId}
      H == {i \in 1..Len(messages) : IsToolMessage(messages[i]) /\ messages[i].tool_call_id = id}
  IN IF N # {} THEN <<"n", SetMax(N)>>
     ELSE IF H # {} THEN <<"h", SetMax(H)>>
     ELSE NoRef

Deref(messages, newToolMessages, ref) ==
  IF ref[1] = "h" THEN messages[ref[2]] ELSE newToolMessages[ref[2]]

\* mutant: some instead of every
SomeToolCallHasResponse(messages, newToolMessages, msg) ==
  \E k \in 1..Len(msg.tool_calls) :
     /\ msg.tool_calls[k].id # NoId
     /\ ToolMessageMapGet(messages, newToolMessages, msg.tool_calls[k].id) # NoRef

\* msg.tool_calls.every(tc => tc.id && toolMessageMap.has(tc.id))
AllToolCallsHaveResponses(messages, newToolMessages, msg) ==
  \A k \in 1..Len(msg.tool_calls) :
     /\ msg.tool_calls[k].id # NoId
     /\ ToolMessageMapGet(messages, newToolMessages, msg.tool_calls[k].id) # NoRef

\* mutant: the mapped ToolMessages are pushed from the last call to call k
RECURSIVE AttachToolMessagesReversed(_, _, _, _, _)
AttachToolMessagesReversed(messages, newToolMessages, calls, k, refs) ==
  IF k > Len(calls) THEN refs
  ELSE LET rest == AttachToolMessagesReversed(messages, newToolMessages, calls, k + 1, refs)
           ref == ToolMessageMapGet(messages, newToolMessages, calls[k].id)
       IN IF ref # NoRef /\ ref \notin Range(rest) THEN Append(rest, ref) ELSE rest

\* msg.tool_calls.forEach: push the mapped ToolMessage unless already included
RECURSIVE AttachToolMessages(_, _, _, _, _)
AttachToolMessages(messages, newToolMessages, calls, k, refs) ==
  IF k > Len(calls) THEN refs
  ELSE LET ref == ToolMessageMapGet(messages, newToolMessages, calls[k].id)
       IN AttachToolMessages(messages, newToolMessages, calls, k + 1,
            IF ref # NoRef /\ ref \notin Range(refs) THEN Append(refs, ref) ELSE refs)

\* the second loop of processMessages from message i on; acc is
\* [refs: processedMessages, threw, warned, errored]
RECURSIVE ProcessFrom(_, _, _, _, _, _)
ProcessFrom(messages, newToolMessages, hasToolResults, hasPendingToolCalls, i, acc) ==
  IF i > Len(messages) \/ acc.threw THEN acc
  ELSE LET msg == messages[i]
           next ==
             IF IsAIWithTools(msg) THEN
               IF AllToolCallsHaveResponses(messages, newToolMessages, msg)
               THEN [acc EXCEPT !.refs = AttachToolMessages(messages, newToolMessages,
                                            msg.tool_calls, 1, Append(acc.refs, <<"h", i>>))]
               ELSE IF hasToolResults \/ hasPendingToolCalls
                    THEN [acc EXCEPT !.warned = acc.warned \cup {i}]
                    ELSE [acc EXCEPT !.errored = acc.errored \cup {i},
                                     !.threw = LoggerErrorThrows]
             ELSE IF IsToolMessage(msg) THEN
               IF <<"h", i>> \notin Range(acc.refs)
               THEN [acc EXCEPT !.refs = Append(acc.refs, <<"h", i>>)]
               ELSE acc
             ELSE [acc EXCEPT !.refs = Append(acc.refs, <<"h", i>>)]
       IN ProcessFrom(messages, newToolMessages, hasToolResults, hasPendingToolCalls, i + 1, next)

\* mutant: an unanswered call is always taken to be in flight (warning only)
ProcessMessagesWarnOnly(messages, newToolMessages, hasToolResults, hasPendingToolCalls) ==
  ProcessFrom(messages, newToolMessages, TRUE, hasPendingToolCalls, 1,
              [refs |-> <<>>, threw |-> FALSE, warned |-> {}, errored |-> {}])

\* mutant: the second loop starts at the second message
ProcessMessagesFromSecond(messages, newToolMessages, hasToolResults, hasPendingToolCalls) ==
  ProcessFrom(messages, newToolMessages, hasToolResults, hasPendingToolCalls, 2,
              [refs |-> <<>>, threw |-> FALSE, warned |-> {}, errored |-> {}])

ProcessMessages(messages, newToolMessages, hasToolResults, hasPendingToolCalls) ==
  ProcessFrom(messages, newToolMessages, hasToolResults, hasPendingToolCalls, 1,
              [refs |-> <<>>, threw |-> FALSE, warned |-> {}, errored |-> {}])

\* mutant: only the first id without a ToolMessage is reported
ValidateToolCallsFirstMissing(messages) ==
  LET toolCallIds == UNION {{messages[i].tool_calls[k].id : k \in 1..Len(messages[i].tool_calls)} :
                              i \in {j \in 1..Len(messages) : messages[j].type = "ai"}} \ {NoId}
      toolMessageIds == {messages[i].tool_call_id :
                           i \in {j \in 1..Len(messages) : IsToolMessage(messages[j])}}
      missing == toolCallIds \ toolMessageIds
  IN IF missing = {} THEN {} ELSE {CHOOSE id \in missing : \A other \in missing : id <= other}

\* ids requested by an AIMessage of the list that no ToolMessage of the list answers
ValidateToolCalls(messages) ==
  LET toolCallIds == UNION {{messages[i].tool_calls[k].id : k \in 1..Len(messages[i].tool_calls)} :
                              i \in {j \in 1..Len(messages) : messages[j].type = "ai"}} \ {NoId}
      toolMessageIds == {messages[i].tool_call_id :
                           i \in {j \in 1..Len(messages) : IsToolMessage(messages[j])}}
  IN toolCallIds \ toolMessageIds

\* ------------------------------------------------------------ ToolExecutor
\* a tool result is a string or an object; an error result is the object
\* { error: message }.  The registered tool resolves to an object.
StringValue(v) == [kind |-> "str", v |-> v]
ObjectValue(v) == [kind |-> "obj", v |-> v]
ErrorValue(message) == [kind |-> "err", v |-> message]
ToolReturns(name) == ObjectValue("summary")
ResultValues == {StringValue("summary"), ObjectValue("summary")}

\* the for loop of executeTools from call i on.  A missing tool calls
\* logger.error inside the try block; a throw inside the try block (from
\* logger.error or from tool.execute) enters the catch block, which calls
\* logger.error again before it pushes the error record.
RECURSIVE ExecuteFrom(_, _, _, _)
ExecuteFrom(toolCalls, outcomes, i, acc) ==
  IF i > Len(toolCalls) \/ acc.threw THEN acc
  ELSE LET name == toolCalls[i].name
           found == name \in Registered
           caught == IF found THEN outcomes[i] = "throw" ELSE LoggerErrorThrows
           next ==
             IF caught THEN
               IF LoggerErrorThrows
               THEN [acc EXCEPT !.threw = TRUE,
                                !.executed = IF found THEN Append(acc.executed, i) ELSE acc.executed]
               ELSE [acc EXCEPT !.results = Append(acc.results,
                                                [name |-> name, result |-> ErrorValue("boom")]),
                                !.executed = Append(acc.executed, i)]
             ELSE IF ~found THEN acc
             ELSE [acc EXCEPT !.results = Append(acc.results,
                                              [name |-> name, result |-> ToolReturns(name)]),
                              !.executed = Append(acc.executed, i)]
       IN ExecuteFrom(toolCalls, outcomes, i + 1, next)

\* mutant: executeTools returns once the first call of the batch is through
ExecuteFirstToolOnly(toolCalls, outcomes) ==
  ExecuteFrom(SubSeq(toolCalls, 1, 1), outcomes, 1,
              [threw |-> FALSE, results |-> <<>>, executed |-> <<>>])

\* mutant: a batch that ended in a throw is run a second time
ExecuteToolsRetrying(toolCalls, outcomes) ==
  LET r == ExecuteFrom(toolCalls, outcomes, 1,
                       [threw |-> FALSE, results |-> <<>>, executed |-> <<>>])
  IN IF r.threw THEN [r EXCEPT !.executed = r.executed \o r.executed] ELSE r

ExecuteTools(toolCalls, outcomes) ==
  ExecuteFrom(toolCalls, outcomes, 1, [threw |-> FALSE, results |-> <<>>, executed |-> <<>>])

\* -------------------------------------------------------------------- Node
\* mutant: the system prompt is not put in front of the list
GetMessageListWithoutPrompt(st) ==
  LET newToolMessages == CreateToolMessages(st.toolResults, FindLastAIMessageWithTools(st.messages))
      pm == ProcessMessages(st.messages, newToolMessages,
                            Len(st.toolResults) > 0, Len(st.toolCalls) > 0)
  IN [threw |-> pm.threw,
      messages |-> [k \in 1..Len(pm.refs) |-> Deref(st.messages, newToolMessages, pm.refs[k])],
      refs |-> pm.refs, warned |-> pm.warned, errored |-> pm.errored,
      newToolMessages |-> newToolMessages]

GetMessageList(st) ==
  LET hasSystemMessage == \E i \in 1..Len(st.messages) : st.messages[i].type = "system"
      allMessages0 == IF ~hasSystemMessage /\ HasSystemPrompt THEN <<SystemMessage>> ELSE <<>>
      lastAIMessageWithTools == FindLastAIMessageWithTools(st.messages)
      newToolMessages == CreateToolMessages(st.toolResults, lastAIMessageWithTools)
      hasToolResults == Len(st.toolResults) > 0
      hasPendingToolCalls == Len(st.toolCalls) > 0
      pm == ProcessMessages(st.messages, newToolMessages, hasToolResults, hasPendingToolCalls)
      finalMessages == [k \in 1..Len(pm.refs) |-> Deref(st.messages, newToolMessages, pm.refs[k])]
  IN [threw |-> pm.threw,
      messages |-> IF ~hasSystemMessage /\ Len(allMessages0) > 0
                   THEN allMessages0 \o finalMessages ELSE finalMessages,
      refs |-> pm.refs, warned |-> pm.warned, errored |-> pm.errored,
      newToolMessages |-> newToolMessages]

\* getLLMWithTools: both branches of a failed validation call logger.error
GetLLMWithToolsThrows(messages) == ValidateToolCalls(messages) # {} /\ LoggerErrorThrows

\* { name: tc.name, args: tc.args } of every requested call
ToolCallsToExecute(toolCalls) ==
  [k \in 1..Len(toolCalls) |-> [name |-> toolCalls[k].name, args |-> toolCalls[k].args]]

CreateToolMessagesFromResults(st) ==
  IF Len(st.toolResults) = 0 THEN <<>>
  ELSE CreateToolMessages(st.toolResults, FindLastAIMessageWithTools(st.messages))

\* mutant: the final response is not appended and the records stay
HandleFinalResponseDropped(resp, st) ==
  [messages |-> <<>>, toolResults |-> st.toolResults]

\* the update handleFinalResponse returns
HandleFinalResponse(resp, st) ==
  [messages |-> CreateToolMessagesFromResults(st) \o <<resp>>, toolResults |-> <<>>]

\* the state after the graph merges the update of a step that ran tools:
\* { messages: [response], toolCalls: [], toolResults }
AfterToolStep(st, resp, toolResults) ==
  [messages |-> messagesReducer(st.messages, <<resp>>),
   toolCalls |-> replaceReducer(st.toolCalls, <<>>, TRUE),
   toolResults |-> replaceReducer(st.toolResults, toolResults, TRUE)]

\* the state after the graph merges the update of handleFinalResponse
AfterFinalStep(st, resp) ==
  LET upd == HandleFinalResponse(resp, st)
  IN [messages |-> messagesReducer(st.messages, upd.messages),
      toolCalls |-> replaceReducer(st.toolCalls, <<>>, FALSE),
      toolResults |-> replaceReducer(st.toolResults, upd.toolResults, TRUE)]

\* ---------------------------------------- mainAgent (inline reconciliation)
\* msg.tool_calls.map(tc => correspondingToolMessages.find(...)).filter(...):
\* of the new ToolMessages still in `remaining`, the first one for each tool
\* call from call k on, in the order of the tool calls
RECURSIVE SortedToolMessages(_, _, _, _)
SortedToolMessages(newToolMessages, calls, k, remaining) ==
  IF k > Len(calls) THEN <<>>
  ELSE LET M == {j \in remaining : newToolMessages[j].tool_call_id = calls[k].id}
       IN (IF M = {} THEN <<>> ELSE <<CHOOSE j \in M : \A l \in M : j <= l>>)
            \o SortedToolMessages(newToolMessages, calls, k + 1, remaining)

\* the loop that copies processedMessages to allMessages from position p on:
\* behind an AIMessage with tool calls its new ToolMessages are pushed and
\* spliced out of newToolMessages; acc is [refs, remaining]
RECURSIVE InsertFrom(_, _, _, _, _)
InsertFrom(messages, newToolMessages, processed, p, acc) ==
  IF p > Len(processed) THEN acc
  ELSE LET msg == Deref(messages, newToolMessages, processed[p])
           sorted == IF IsAIWithTools(msg)
                     THEN SortedToolMessages(newToolMessages, msg.tool_calls, 1, acc.remaining)
                     ELSE <<>>
       IN InsertFrom(messages, newToolMessages, processed, p + 1,
            [refs |-> Append(acc.refs, processed[p])
                        \o [k \in 1..Len(sorted) |-> <<"n", sorted[k]>>],
             remaining |-> acc.remaining \ Range(sorted)])

\* the new ToolMessages whose index is in `remaining`, in their order
RECURSIVE RemainingFrom(_, _)
RemainingFrom(j, remaining) ==
  IF remaining = {} THEN <<>>
  ELSE IF j \in remaining THEN <<<<"n", j>>>> \o RemainingFrom(j + 1, remaining \ {j})
  ELSE RemainingFrom(j + 1, remaining)

\* mainAgent up to llmWithTools.invoke: the list for the model, and what is
\* left in newToolMessages for the update of a final response
MainAgentMessages(st) ==
  LET hasSystemMessage == \E i \in 1..Len(st.messages) : st.messages[i].type = "system"
      allMessages0 == IF ~hasSystemMessage /\ HasSystemPrompt THEN <<SystemMessage>> ELSE <<>>
      newToolMessages == IF Len(st.toolResults) > 0
                         THEN CreateToolMessages(st.toolResults,
                                                 FindLastAIMessageWithTools(st.messages))
                         ELSE <<>>
      pm == ProcessMessages(st.messages, newToolMessages,
                            Len(st.toolResults) > 0, Len(st.toolCalls) > 0)
      ins == InsertFrom(st.messages, newToolMessages, pm.refs, 1,
                        [refs |-> <<>>, remaining |-> 1..Len(newToolMessages)])
      refs == ins.refs \o RemainingFrom(1, ins.remaining)
      all == allMessages0 \o [k \in 1..Len(refs) |-> Deref(st.messages, newToolMessages, refs[k])]
  IN [threw |-> pm.threw \/ (ValidateToolCalls(all) # {} /\ LoggerErrorThrows),
      messages |-> all,
      refs |-> refs,
      newToolMessages |-> newToolMessages,
      leftover |-> RemainingFrom(1, ins.remaining)]

\* ----------------------------------------------------------- AgentWorkflow
\* mutant: the edge looks at the pending tool calls instead of the results
ShouldContinueOnToolCalls(st) == IF Len(st.toolCalls) > 0 THEN "continue" ELSE "end"

\* the conditional edge after the agent node
ShouldContinue(st) == IF Len(st.toolResults) > 0 THEN "continue" ELSE "end"

\* ------------------------------------------------------------- ChatManager
\* mutant: the state of the run is stored whether or not the run completed
ConversationAlwaysStored(stored, finalState, completed) == finalState

\* string | null
NoText == [found |-> FALSE, text |-> ""]
Text(content) == [found |-> TRUE, text |-> content]

\* mutant: the scan runs from the first message on
ExtractFirstAIResponseIndex(messages) ==
  LET plain == {i \in 1..Len(messages) : messages[i].type = "ai" /\ messages[i].tool_calls = <<>>}
  IN IF plain = {} THEN 0 ELSE CHOOSE i \in plain : \A j \in plain : i <= j

\* extractAIResponse: the scan from the end stops at the first AIMessage
\* without tool calls; 0 when there is none
ExtractAIResponseIndex(messages) ==
  LET plain == {i \in 1..Len(messages) : messages[i].type = "ai" /\ messages[i].tool_calls = <<>>}
  IN IF plain = {} THEN 0 ELSE SetMax(plain)

\* the text processUserInput displays and returns
ExtractAIResponse(st) ==
  LET i == ExtractAIResponseIndex(st.messages)
  IN IF i = 0 THEN NoText ELSE Text(st.messages[i].content)

\* processUserInput stores finalState after invoke returned; a throw skips it
ConversationAfterTurn(stored, finalState, completed) ==
  IF completed THEN finalState ELSE stored

\* ------------------------------------------------------------ ToolRegistry
\* a Tool is its name and the rest of it (description, execute, parameters);
\* names are compared as they are written
RegistryNames == {"search", "Search"}
ToolBodies == {"first", "second"}
Tool(name, body) == [name |-> name, body |-> body]
NotFound == Tool("", "undefined")
NoGet == [name |-> "", result |-> NotFound, at |-> 0]

\* Map.prototype.has
RegistryHas(entries, name) == \E i \in 1..Len(entries) : entries[i].name = name

\* mutant: an entry that is present is kept
RegistrySetIfAbsent(entries, tool) ==
  IF RegistryHas(entries, tool.name) THEN entries ELSE Append(entries, tool)

\* Map.prototype.set: the value of a key that is present is replaced where it
\* stands, a new key is added behind the others
RegistrySet(entries, tool) ==
  IF RegistryHas(entries, tool.name)
  THEN [i \in 1..Len(entries) |-> IF entries[i].name = tool.name THEN tool ELSE entries[i]]
  ELSE Append(entries, tool)

\* ToolRegistry.get
RegistryGet(entries, name) ==
  IF RegistryHas(entries, name)
  THEN entries[CHOOSE i \in 1..Len(entries) : entries[i].name = name]
  ELSE NotFound

\* ------------------------------------------------- requests of the server
\* handleChat runs every request on the AgentWorkflow that initializeAgent
\* made once; a request has the graph state of its own invoke call
Sessions == {1, 2}
NewSession == [pc |-> "new", state |-> EmptyState, response |-> NoMessage, rounds |-> 0,
               ids |-> 0, failure |-> "none"]

\* mutant: the node reads the state of the first request
SharedNodeState(all, s) == all[1].state

\* the state parameter of Node.execute in the invoke call of request s
NodeState(all, s) == all[s].state

\* ------------------------------------------------------------------- state
VARIABLES
  conversationState,  \* ChatManager.conversationState
  state,              \* the graph state of the running workflow
  pc,                 \* where the session is: idle, agent, llm, tools, route, done, failed, stopped
  allMessages,        \* the list handed to llmWithTools.invoke
  response,           \* the model's response of the current step
  recon,              \* what getMessageList computed in the current step
  exec,               \* the last executeTools call: its input and what came of it
  failure,            \* which call threw: none, reconcile, validate, model, tools
  turn,               \* turns started
  rounds,             \* responses with tool calls in this turn
  nextId,             \* the next tool-call id the model hands out
  turnReqIds,         \* ids of the tool calls requested in this turn
  lastHadTools,       \* the last response carried tool calls
  turnStart,          \* conversationState when the turn started
  events,             \* the events enqueued on the stream of the chat route
  lastContent,        \* POST's lastContent: the text already sent as deltas
  accumulatedState,   \* POST's accumulatedState, built from the stream updates
  mainRecon,          \* what mainAgent's inline reconciliation computed for the state
  toolRuns,           \* ids of the tool calls whose tool.execute was invoked, in order
  tools,              \* ToolRegistry.tools: the entries of the Map in insertion order
  registerLog,        \* the tools handed to register, in order
  got,                \* the last get: its name, its result, the registrations before it
  sessions,           \* the requests running on the one AgentWorkflow of the server
  traces,             \* per request: the model responses and tool outcomes it met
  workflowRun         \* one invoke of the main/sub-agent workflow: its graph state and position

vars == <<conversationState, state, pc, allMessages, response, recon, exec, failure,
          turn, rounds, nextId, turnReqIds, lastHadTools, turnStart,
          events, lastContent, accumulatedState, mainRecon, toolRuns,
          tools, registerLog, got, sessions, traces, workflowRun>>

\* the variables of the requests that share the workflow of the server
pairVars == <<sessions, traces>>

\* the variables of the tool registry
registryVars == <<tools, registerLog, got>>

\* the variables of the streaming chat route
streamVars == <<events, lastContent, accumulatedState>>

NoMainRecon == [threw |-> FALSE, messages |-> <<>>, refs |-> <<>>, newToolMessages |-> <<>>,
                leftover |-> <<>>]

\* ------------------------------------------- the main/sub-agent workflow
\* AgentState of src/src/agent: the three channels and agentType
AgentsState(messages, toolCalls, toolResults, agentType) ==
  [messages |-> messages, toolCalls |-> toolCalls, toolResults |-> toolResults,
   agentType |-> agentType]

\* nothing invoked yet; conversation is conversationState of the ChatManager,
\* steps are the node functions that returned in the current invoke, update
\* is the messages of the last update mainAgent returned
NewWorkflowRun ==
  [pc |-> "new", conversation |-> AgentsState(<<>>, <<>>, <<>>, "main"),
   state |-> AgentsState(<<>>, <<>>, <<>>, "main"), steps |-> <<>>,
   prepared |-> NoMainRecon, update |-> <<>>, turns |-> 0, rounds |-> 0, ids |-> 0,
   failure |-> "none"]

\* mutant: the edge behind mainAgent looks at the tool results
ShouldContinueAgentsOnResults(st) == IF Len(st.toolResults) > 0 THEN "subAgent" ELSE "END"

\* shouldContinue of the main/sub-agent workflow
ShouldContinueAgents(st) == IF Len(st.toolCalls) > 0 THEN "subAgent" ELSE "END"

\* messagesToReturn: what the insert loop left in newToolMessages, then the response
MessagesToReturn(prepared, resp) ==
  [k \in 1..Len(prepared.leftover) |-> prepared.newToolMessages[prepared.leftover[k][2]]]
    \o <<resp>>

NoRecon == [threw |-> FALSE, messages |-> <<>>, refs |-> <<>>, warned |-> {}, errored |-> {},
            newToolMessages |-> <<>>]
NoExec == [calls |-> <<>>, outcomes |-> <<>>, threw |-> FALSE, results |-> <<>>, executed |-> <<>>]

\* the tool calls of a response: the API gives every call its own id
MakeCalls(names, firstId) ==
  [k \in 1..Len(names) |-> [id |-> firstId + k - 1, name |-> names[k], args |-> "q"]]
CallNames == UNION {[1..k -> ToolNames] : k \in 1..MaxCalls}
FinalAnswer == AIMessage("answer", <<>>)
Responses(firstId) == {FinalAnswer} \cup {AIMessage("", MakeCalls(names, firstId)) : names \in CallNames}

\* what the tools of a batch do; a name that is not registered runs nothing
OutcomesFor(calls) ==
  {o \in [1..Len(calls) -> Outcomes] :
     \A k \in 1..Len(calls) : calls[k].name \notin Registered => o[k] = "ok"}

Init ==
  /\ workflowRun = NewWorkflowRun
  /\ sessions = [s \in Sessions |-> NewSession]
  /\ traces = [s \in Sessions |-> <<>>]
  /\ tools = <<>>
  /\ registerLog = <<>>
  /\ got = NoGet
  /\ toolRuns = <<>>
  /\ mainRecon = NoMainRecon
  /\ events = <<>>
  /\ lastContent = ""
  /\ accumulatedState = EmptyState
  /\ conversationState = EmptyState
  /\ state = EmptyState
  /\ pc = "idle"
  /\ allMessages = <<>>
  /\ response = NoMessage
  /\ recon = NoRecon
  /\ exec = NoExec
  /\ failure = "none"
  /\ turn = 0
  /\ rounds = 0
  /\ nextId = 1
  /\ turnReqIds = {}
  /\ lastHadTools = FALSE
  /\ turnStart = EmptyState

\* ChatManager.processUserInput up to app.invoke(newState)
StartTurn ==
  /\ UNCHANGED workflowRun
  /\ UNCHANGED pairVars
  /\ UNCHANGED registryVars
  /\ UNCHANGED toolRuns
  /\ UNCHANGED mainRecon
  /\ UNCHANGED streamVars
  /\ pc = "idle"
  /\ turn < MaxTurns
  /\ state' = [messages |-> conversationState.messages \o <<HumanMessage>>,
               toolCalls |-> <<>>, toolResults |-> <<>>]
  /\ pc' = "agent"
  /\ turn' = turn + 1
  /\ rounds' = 0
  /\ turnReqIds' = {}
  /\ lastHadTools' = FALSE
  /\ turnStart' = conversationState
  /\ allMessages' = <<>>
  /\ response' = NoMessage
  /\ recon' = NoRecon
  /\ exec' = NoExec
  /\ failure' = "none"
  /\ UNCHANGED <<conversationState, nextId>>

\* Node.execute up to llmWithTools.invoke: getMessageList, getLLMWithTools
AgentPrepare ==
  /\ UNCHANGED workflowRun
  /\ UNCHANGED pairVars
  /\ UNCHANGED registryVars
  /\ UNCHANGED toolRuns
  /\ UNCHANGED mainRecon
  /\ UNCHANGED streamVars
  /\ pc = "agent"
  /\ LET ml == GetMessageList(state)
     IN /\ recon' = ml
        /\ IF ml.threw
           THEN pc' = "failed" /\ failure' = "reconcile" /\ UNCHANGED allMessages
           ELSE IF GetLLMWithToolsThrows(ml.messages)
                THEN pc' = "failed" /\ failure' = "validate" /\ UNCHANGED allMessages
                ELSE pc' = "llm" /\ allMessages' = ml.messages /\ UNCHANGED failure
  /\ UNCHANGED <<conversationState, state, response, exec, turn, rounds, nextId,
                 turnReqIds, lastHadTools, turnStart>>

\* the model answers with one of `responses`; without tool calls the step
\* ends in handleFinalResponse
ModelAnswers(responses) ==
  /\ UNCHANGED workflowRun
  /\ UNCHANGED pairVars
  /\ UNCHANGED registryVars
  /\ UNCHANGED toolRuns
  /\ UNCHANGED mainRecon
  /\ UNCHANGED streamVars
  /\ pc = "llm"
  /\ \E resp \in responses :
       /\ IsAIWithTools(resp) => rounds < MaxRounds
       /\ response' = resp
       /\ lastHadTools' = IsAIWithTools(resp)
       /\ IF IsAIWithTools(resp)
          THEN /\ pc' = "tools"
               /\ rounds' = rounds + 1
               /\ nextId' = nextId + Len(resp.tool_calls)
               /\ turnReqIds' = turnReqIds \cup {resp.tool_calls[k].id : k \in 1..Len(resp.tool_calls)}
               /\ UNCHANGED state
          ELSE /\ pc' = "route"
               /\ state' = AfterFinalStep(state, resp)
               /\ UNCHANGED <<rounds, nextId, turnReqIds>>
  /\ UNCHANGED <<conversationState, allMessages, recon, exec, failure, turn, turnStart>>

ModelRespond == ModelAnswers(Responses(nextId))

\* llm.invoke rejects (HTTP error, timeout): LLMAdapter.invoke rethrows
ModelFail ==
  /\ UNCHANGED workflowRun
  /\ UNCHANGED pairVars
  /\ UNCHANGED registryVars
  /\ UNCHANGED toolRuns
  /\ UNCHANGED mainRecon
  /\ UNCHANGED streamVars
  /\ pc = "llm"
  /\ pc' = "failed"
  /\ failure' = "model"
  /\ UNCHANGED <<conversationState, state, allMessages, response, recon, exec, turn, rounds,
                 nextId, turnReqIds, lastHadTools, turnStart>>

\* Node.execute after a response with tool calls: executeTools, then the update
ToolsRun ==
  /\ UNCHANGED workflowRun
  /\ UNCHANGED pairVars
  /\ UNCHANGED registryVars
  /\ UNCHANGED mainRecon
  /\ UNCHANGED streamVars
  /\ pc = "tools"
  /\ LET calls == ToolCallsToExecute(response.tool_calls)
     IN \E outcomes \in OutcomesFor(calls) :
          LET r == ExecuteTools(calls, outcomes)
          IN /\ exec' = [calls |-> calls, outcomes |-> outcomes, threw |-> r.threw,
                         results |-> r.results, executed |-> r.executed]
             /\ toolRuns' = toolRuns \o [k \in 1..Len(r.executed) |->
                                             response.tool_calls[r.executed[k]].id]
             /\ IF r.threw
                THEN pc' = "failed" /\ failure' = "tools" /\ UNCHANGED state
                ELSE pc' = "route" /\ state' = AfterToolStep(state, response, r.results)
                     /\ UNCHANGED failure
  /\ UNCHANGED <<conversationState, allMessages, response, recon, turn, rounds, nextId,
                 turnReqIds, lastHadTools, turnStart>>

\* the conditional edge: back to the agent node, or END
Route ==
  /\ UNCHANGED workflowRun
  /\ UNCHANGED pairVars
  /\ UNCHANGED registryVars
  /\ UNCHANGED toolRuns
  /\ UNCHANGED mainRecon
  /\ UNCHANGED streamVars
  /\ pc = "route"
  /\ pc' = IF ShouldContinue(state) = "continue" THEN "agent" ELSE "done"
  /\ UNCHANGED <<conversationState, state, allMessages, response, recon, exec, failure, turn,
                 rounds, nextId, turnReqIds, lastHadTools, turnStart>>

\* processUserInput after invoke returned or threw.  Its catch block calls
\* logger.error, and so does the catch block of run's loop: run ends.
EndTurn ==
  /\ UNCHANGED workflowRun
  /\ UNCHANGED pairVars
  /\ UNCHANGED registryVars
  /\ UNCHANGED toolRuns
  /\ UNCHANGED mainRecon
  /\ UNCHANGED streamVars
  /\ pc \in {"done", "failed"}
  /\ conversationState' = ConversationAfterTurn(conversationState, state, pc = "done")
  /\ pc' = IF pc = "done" THEN "idle" ELSE IF LoggerErrorThrows THEN "stopped" ELSE "idle"
  /\ UNCHANGED <<state, allMessages, response, recon, exec, failure, turn, rounds, nextId,
                 turnReqIds, lastHadTools, turnStart>>

Next ==
  \/ StartTurn
  \/ AgentPrepare
  \/ ModelRespond
  \/ ModelFail
  \/ ToolsRun
  \/ Route
  \/ EndTurn

Spec == Init /\ [][Next]_vars

\* The session under the scheduling the runtime gives it: an awaited call
\* that has settled is resumed, every model invocation and every tool
\* execution settles, and the graph takes the edge behind a finished node.
\* A session that stays at one of these points of a step leaves it; the
\* step of Next that leaves it is always enabled there.
RunningPoints == {"agent", "llm", "tools", "route"}
PcValues == {"idle", "agent", "llm", "tools", "route", "done", "failed", "stopped"}
Leaves(p) == pc = p /\ pc' \in PcValues \ {p}
Fairness ==
  /\ WF_pc(Leaves("agent"))
  /\ WF_pc(Leaves("llm"))
  /\ WF_pc(Leaves("tools"))
  /\ WF_pc(Leaves("route"))

SpecLive == Spec /\ Fairness

\* ---------------------------------------------- the reconciler on its own
\* A session state is put together message by message, record by record, and
\* getMessageList is applied to it.  Histories are the ones a session can
\* hold: every call has its own id, a ToolMessage answers a call requested
\* before it, and no call is answered twice.
RequestedIds(messages) ==
  UNION {{messages[i].tool_calls[k].id : k \in 1..Len(messages[i].tool_calls)} :
           i \in 1..Len(messages)}
AnsweredIds(messages) ==
  {messages[i].tool_call_id : i \in {j \in 1..Len(messages) : IsToolMessage(messages[j])}}

BuildCallNames == UNION {[1..k -> Registered] : k \in 1..MaxCalls}
BuildCandidates(messages, firstId) ==
  {SystemMessage, HumanMessage, FinalAnswer}
    \cup {AIMessage("", MakeCalls(names, firstId)) : names \in BuildCallNames}
    \cup {ToolMessage(Serialize(StringValue("summary")), id) :
            id \in RequestedIds(messages) \ AnsweredIds(messages)}

InitRecon ==
  /\ workflowRun = NewWorkflowRun
  /\ sessions = [s \in Sessions |-> NewSession]
  /\ traces = [s \in Sessions |-> <<>>]
  /\ tools = <<>>
  /\ registerLog = <<>>
  /\ got = NoGet
  /\ toolRuns = <<>>
  /\ mainRecon = NoMainRecon
  /\ events = <<>>
  /\ lastContent = ""
  /\ accumulatedState = EmptyState
  /\ conversationState = EmptyState
  /\ state = EmptyState
  /\ pc = "build"
  /\ allMessages = <<>>
  /\ response = NoMessage
  /\ recon = NoRecon
  /\ exec = NoExec
  /\ failure = "none"
  /\ turn = 0
  /\ rounds = 0
  /\ nextId = 1
  /\ turnReqIds = {}
  /\ lastHadTools = FALSE
  /\ turnStart = EmptyState

BuildMessage ==
  /\ UNCHANGED workflowRun
  /\ UNCHANGED pairVars
  /\ UNCHANGED registryVars
  /\ UNCHANGED toolRuns
  /\ UNCHANGED mainRecon
  /\ UNCHANGED streamVars
  /\ pc = "build"
  /\ Len(state.messages) < MaxHist
  /\ \E msg \in BuildCandidates(state.messages, nextId) :
       /\ state' = [state EXCEPT !.messages = Append(@, msg)]
       /\ nextId' = nextId + Len(msg.tool_calls)
  /\ UNCHANGED <<conversationState, pc, allMessages, response, recon, exec, failure, turn,
                 rounds, turnReqIds, lastHadTools, turnStart>>

BuildResult ==
  /\ UNCHANGED workflowRun
  /\ UNCHANGED pairVars
  /\ UNCHANGED registryVars
  /\ UNCHANGED toolRuns
  /\ UNCHANGED mainRecon
  /\ UNCHANGED streamVars
  /\ pc = "build"
  /\ Len(state.toolResults) < MaxBatch
  /\ \E name \in Registered, result \in ResultValues :
       state' = [state EXCEPT !.toolResults = Append(@, [name |-> name, result |-> result])]
  /\ UNCHANGED <<conversationState, pc, allMessages, response, recon, exec, failure, turn,
                 rounds, nextId, turnReqIds, lastHadTools, turnStart>>

BuildPending ==
  /\ UNCHANGED workflowRun
  /\ UNCHANGED pairVars
  /\ UNCHANGED registryVars
  /\ UNCHANGED toolRuns
  /\ UNCHANGED mainRecon
  /\ UNCHANGED streamVars
  /\ pc = "build"
  /\ state.toolCalls = <<>>
  /\ \E name \in Registered :
       state' = [state EXCEPT !.toolCalls = <<[name |-> name, args |-> "q"]>>]
  /\ UNCHANGED <<conversationState, pc, allMessages, response, recon, exec, failure, turn,
                 rounds, nextId, turnReqIds, lastHadTools, turnStart>>

\* Node.getMessageList(state.messages, state), and next to it what mainAgent
\* makes of the same state
Reconcile ==
  /\ UNCHANGED workflowRun
  /\ UNCHANGED pairVars
  /\ UNCHANGED registryVars
  /\ UNCHANGED toolRuns
  /\ UNCHANGED streamVars
  /\ pc = "build"
  /\ recon' = GetMessageList(state)
  /\ mainRecon' = MainAgentMessages(state)
  /\ pc' = IF recon'.threw THEN "threw" ELSE "reconciled"
  /\ UNCHANGED <<conversationState, state, allMessages, response, exec, failure, turn,
                 rounds, nextId, turnReqIds, lastHadTools, turnStart>>

NextRecon ==
  \/ BuildMessage
  \/ BuildResult
  \/ BuildPending
  \/ Reconcile

SpecRecon == InitRecon /\ [][NextRecon]_vars


\* ------------------------------------------------ the streaming chat route
\* POST /api/chat of the web app: one request, whose body carries the whole
\* conversation so far; the workflow is streamed and every update of the
\* agent node is turned into events on the response stream.
PriorAnswers == {"hi"}
ToolCallTexts == {"", "thinking"}
HumanMessageOf(content) == [HumanMessage EXCEPT !.content = content]
UserEntry == [role |-> "user", content |-> "user"]
BodyEntries == {UserEntry} \cup {[role |-> "assistant", content |-> a] : a \in PriorAnswers}
Bodies == UNION {[1..n -> BodyEntries] : n \in 1..MaxBody}

\* the messages of the request as LangChain messages, behind the system prompt
RECURSIVE ConvertFrom(_, _)
ConvertFrom(body, i) ==
  IF i > Len(body) THEN <<>>
  ELSE (IF body[i].role = "user" THEN <<HumanMessageOf(body[i].content)>>
        ELSE IF body[i].role = "assistant" THEN <<AIMessage(body[i].content, <<>>)>>
        ELSE <<>>) \o ConvertFrom(body, i + 1)

LangchainMessages(body) ==
  LET converted == <<SystemMessage>> \o ConvertFrom(body, 1)
      hasUserMessage == \E i \in 1..Len(converted) : converted[i].type = "human"
  IN IF ~hasUserMessage /\ Len(body) > 0 /\ body[Len(body)].role # "system"
     THEN Append(converted, HumanMessageOf(body[Len(body)].content))
     ELSE converted

\* extractAIResponse of the route: null, or the text found
RouteExtractAIResponse(messages) ==
  LET ai == {i \in 1..Len(messages) : messages[i].type = "ai"}
      plain == {i \in ai : messages[i].tool_calls = <<>> /\ messages[i].content # ""}
  IN IF plain # {} THEN Text(messages[SetMax(plain)].content)
     ELSE IF ai # {} /\ messages[SetMax(ai)].content # "" THEN Text(messages[SetMax(ai)].content)
     ELSE NoText

\* String.prototype.slice(n)
Slice(text, n) == IF n >= Len(text) THEN "" ELSE SubSeq(text, n + 1, Len(text))

DeltaEvent(content) == [kind |-> "delta", content |-> content]
MessageEvent(content) == [kind |-> "message", content |-> content]
ErrorEvent == [kind |-> "error", content |-> "error"]
DoneEvent == [kind |-> "done", content |-> "[DONE]"]

StreamResponses(firstId) ==
  {FinalAnswer} \cup {AIMessage(text, MakeCalls(names, firstId)) :
                        text \in ToolCallTexts, names \in CallNames}

\* POST up to the Response it returns: the state of the run is built from
\* the request
StreamRequest ==
  /\ UNCHANGED workflowRun
  /\ UNCHANGED pairVars
  /\ UNCHANGED registryVars
  /\ UNCHANGED toolRuns
  /\ UNCHANGED mainRecon
  /\ pc = "idle"
  /\ \E body \in Bodies :
       /\ state' = [messages |-> LangchainMessages(body), toolCalls |-> <<>>, toolResults |-> <<>>]
       /\ accumulatedState' = state'
  /\ lastContent' = ""
  /\ events' = <<>>
  /\ pc' = "agent"
  /\ turn' = turn + 1
  /\ UNCHANGED <<conversationState, allMessages, response, recon, exec, failure, rounds,
                 nextId, turnReqIds, lastHadTools, turnStart>>

\* POST throws before the stream exists (request.json, initializeAgent, the
\* body has no messages): the outer catch answers with the error and [DONE]
StreamInitFail ==
  /\ UNCHANGED workflowRun
  /\ UNCHANGED pairVars
  /\ UNCHANGED registryVars
  /\ UNCHANGED toolRuns
  /\ UNCHANGED mainRecon
  /\ pc = "idle"
  /\ events' = <<ErrorEvent, DoneEvent>>
  /\ failure' = "init"
  /\ pc' = "closed"
  /\ UNCHANGED <<conversationState, state, allMessages, response, recon, exec, turn, rounds,
                 nextId, turnReqIds, lastHadTools, turnStart, lastContent, accumulatedState>>

StreamModelRespond == ModelAnswers(StreamResponses(nextId))

\* one round of the for-await loop: the update of the step that just ran is
\* merged into accumulatedState and the text not sent yet goes out as a delta
StreamUpdate ==
  /\ UNCHANGED workflowRun
  /\ UNCHANGED pairVars
  /\ UNCHANGED registryVars
  /\ UNCHANGED toolRuns
  /\ UNCHANGED mainRecon
  /\ pc = "route"
  /\ LET partialState ==
           IF lastHadTools
           THEN [messages |-> <<response>>, toolResults |-> state.toolResults]
           ELSE [messages |-> SubSeq(state.messages, Len(accumulatedState.messages) + 1,
                                     Len(state.messages)),
                 toolResults |-> <<>>]
         accumulated ==
           [messages |-> accumulatedState.messages \o partialState.messages,
            toolCalls |-> IF lastHadTools THEN <<>> ELSE accumulatedState.toolCalls,
            toolResults |-> partialState.toolResults]
         currentResponse == RouteExtractAIResponse(accumulated.messages)
         delta == Slice(currentResponse.text, Len(lastContent))
     IN /\ accumulatedState' = accumulated
        /\ IF currentResponse.found /\ currentResponse.text # "" /\ currentResponse.text # lastContent
              /\ delta # ""
           THEN events' = Append(events, DeltaEvent(delta)) /\ lastContent' = currentResponse.text
           ELSE UNCHANGED <<events, lastContent>>
  /\ pc' = IF ShouldContinue(state) = "continue" THEN "agent" ELSE "finish"
  /\ UNCHANGED <<conversationState, state, allMessages, response, recon, exec, failure, turn,
                 rounds, nextId, turnReqIds, lastHadTools, turnStart>>

\* after the loop: the full message, then the sentinel
StreamFinish ==
  /\ UNCHANGED workflowRun
  /\ UNCHANGED pairVars
  /\ UNCHANGED registryVars
  /\ UNCHANGED toolRuns
  /\ UNCHANGED mainRecon
  /\ pc = "finish"
  /\ LET finalResponse == RouteExtractAIResponse(accumulatedState.messages)
     IN events' = (IF finalResponse.found /\ finalResponse.text # ""
                   THEN Append(events, MessageEvent(finalResponse.text)) ELSE events)
                    \o <<DoneEvent>>
  /\ pc' = "closed"
  /\ UNCHANGED <<conversationState, state, allMessages, response, recon, exec, failure, turn,
                 rounds, nextId, turnReqIds, lastHadTools, turnStart, lastContent,
                 accumulatedState>>

\* the catch block inside start(controller): the error event, then close()
StreamError ==
  /\ UNCHANGED workflowRun
  /\ UNCHANGED pairVars
  /\ UNCHANGED registryVars
  /\ UNCHANGED toolRuns
  /\ UNCHANGED mainRecon
  /\ pc = "failed"
  /\ events' = Append(events, ErrorEvent)
  /\ pc' = "closed"
  /\ UNCHANGED <<conversationState, state, allMessages, response, recon, exec, failure, turn,
                 rounds, nextId, turnReqIds, lastHadTools, turnStart, lastContent,
                 accumulatedState>>

NextStream ==
  \/ StreamRequest
  \/ StreamInitFail
  \/ AgentPrepare
  \/ StreamModelRespond
  \/ ModelFail
  \/ ToolsRun
  \/ StreamUpdate
  \/ StreamFinish
  \/ StreamError

SpecStream == Init /\ [][NextStream]_vars

\* ------------------------------------------------- the registry on its own
\* register(tool): a warning when the name is present, then tools.set
Register ==
  /\ UNCHANGED workflowRun
  /\ UNCHANGED pairVars
  /\ Len(registerLog) < MaxRegs
  /\ \E name \in RegistryNames, body \in ToolBodies :
       /\ tools' = RegistrySet(tools, Tool(name, body))
       /\ registerLog' = Append(registerLog, Tool(name, body))
  /\ UNCHANGED <<conversationState, state, pc, allMessages, response, recon, exec, failure,
                 turn, rounds, nextId, turnReqIds, lastHadTools, turnStart, streamVars,
                 mainRecon, toolRuns, got>>

\* get(name)
Get ==
  /\ UNCHANGED workflowRun
  /\ UNCHANGED pairVars
  /\ \E name \in RegistryNames :
       got' = [name |-> name, result |-> RegistryGet(tools, name), at |-> Len(registerLog)]
  /\ UNCHANGED <<conversationState, state, pc, allMessages, response, recon, exec, failure,
                 turn, rounds, nextId, turnReqIds, lastHadTools, turnStart, streamVars,
                 mainRecon, toolRuns, tools, registerLog>>

NextRegistry ==
  \/ Register
  \/ Get

SpecRegistry == Init /\ [][NextRegistry]_vars

\* ------------------------------------- two requests on the one workflow
\* the ids the API gives the calls of request s: no two requests share one
IdStride == 10
IdBase(s) == s * IdStride

\* body.message of request s
PairInput(s) == IF s = 1 THEN "first" ELSE "second"

\* newState of handleChat: the message of the request and nothing else
PairNewState(s) ==
  [messages |-> <<HumanMessageOf(PairInput(s))>>, toolCalls |-> <<>>, toolResults |-> <<>>]

PairResponses(firstId) ==
  {FinalAnswer} \cup {AIMessage("", MakeCalls(names, firstId)) : names \in BuildCallNames}

NoTrace == [response |-> NoMessage, outcomes |-> <<>>]

\* the other request is left as it is
OthersUnchanged(s) == \A t \in Sessions \ {s} : sessions'[t] = sessions[t] /\ traces'[t] = traces[t]

\* handleChat: workflow.invoke(newState)
PairStart(s) ==
  /\ sessions[s].pc = "new"
  /\ sessions' = [sessions EXCEPT ![s] = [NewSession EXCEPT !.pc = "agent",
                                                            !.state = PairNewState(s)]]
  /\ UNCHANGED traces

\* Node.execute up to the await of llmWithTools.invoke
PairPrepare(s) ==
  /\ sessions[s].pc = "agent"
  /\ LET ml == GetMessageList(NodeState(sessions, s))
     IN sessions' = [sessions EXCEPT
          ![s].pc = IF ml.threw \/ GetLLMWithToolsThrows(ml.messages) THEN "failed" ELSE "llm",
          ![s].failure = IF ml.threw THEN "reconcile"
                         ELSE IF GetLLMWithToolsThrows(ml.messages) THEN "validate"
                         ELSE "none"]
  /\ UNCHANGED traces

\* the model answers request s; a final answer ends the step
PairRespond(s) ==
  /\ sessions[s].pc = "llm"
  /\ \E resp \in PairResponses(IdBase(s) + sessions[s].ids + 1) :
       /\ IsAIWithTools(resp) => sessions[s].rounds < MaxPairRounds
       /\ traces' = [traces EXCEPT ![s] = Append(@, [NoTrace EXCEPT !.response = resp])]
       /\ IF IsAIWithTools(resp)
          THEN sessions' = [sessions EXCEPT ![s].pc = "tools",
                                            ![s].response = resp,
                                            ![s].rounds = @ + 1,
                                            ![s].ids = @ + Len(resp.tool_calls)]
          ELSE sessions' = [sessions EXCEPT ![s].pc = "route",
                                            ![s].response = NoMessage,
                                            ![s].state = AfterFinalStep(NodeState(sessions, s), resp)]

\* llmWithTools.invoke rejects
PairModelFail(s) ==
  /\ sessions[s].pc = "llm"
  /\ sessions' = [sessions EXCEPT ![s].pc = "failed", ![s].failure = "model"]
  /\ traces' = [traces EXCEPT ![s] = Append(@, NoTrace)]

\* the tools of the response run and the step returns its update
PairToolsRun(s) ==
  /\ sessions[s].pc = "tools"
  /\ LET resp == sessions[s].response
         calls == ToolCallsToExecute(resp.tool_calls)
     IN \E o \in OutcomesFor(calls) :
          LET r == ExecuteTools(calls, o)
          IN /\ traces' = [traces EXCEPT ![s][Len(traces[s])].outcomes = o]
             /\ IF r.threw
                THEN sessions' = [sessions EXCEPT ![s].pc = "failed", ![s].failure = "tools",
                                                  ![s].response = NoMessage]
                ELSE sessions' = [sessions EXCEPT
                       ![s].pc = "route",
                       ![s].response = NoMessage,
                       ![s].state = AfterToolStep(NodeState(sessions, s), resp, r.results)]

\* shouldContinue on the state of request s
PairRoute(s) ==
  /\ sessions[s].pc = "route"
  /\ sessions' = [sessions EXCEPT
       ![s].pc = IF ShouldContinue(NodeState(sessions, s)) = "continue" THEN "agent" ELSE "done"]
  /\ UNCHANGED traces

PairStep(s) ==
  \/ PairStart(s)
  \/ PairPrepare(s)
  \/ PairRespond(s)
  \/ PairModelFail(s)
  \/ PairToolsRun(s)
  \/ PairRoute(s)

NextPair ==
  /\ UNCHANGED workflowRun
  /\ \E s \in Sessions : PairStep(s) /\ OthersUnchanged(s)
  /\ UNCHANGED <<conversationState, state, pc, allMessages, response, recon, exec, failure,
                 turn, rounds, nextId, turnReqIds, lastHadTools, turnStart, streamVars,
                 mainRecon, toolRuns, registryVars>>

SpecPair == Init /\ [][NextPair]_vars

\* the same request on a workflow that serves nothing else: the steps of
\* Node.execute one after the other, on the responses and outcomes of trace
RECURSIVE RunAloneFrom(_, _, _)
RunAloneFrom(st, trace, i) ==
  IF i > Len(trace) THEN [state |-> st, failure |-> "none", ended |-> FALSE]
  ELSE LET ml == GetMessageList(st)
           e == trace[i]
       IN IF ml.threw THEN [state |-> st, failure |-> "reconcile", ended |-> TRUE]
          ELSE IF GetLLMWithToolsThrows(ml.messages)
          THEN [state |-> st, failure |-> "validate", ended |-> TRUE]
          ELSE IF e.response = NoMessage
          THEN [state |-> st, failure |-> "model", ended |-> TRUE]
          ELSE IF IsAIWithTools(e.response)
          THEN LET r == ExecuteTools(ToolCallsToExecute(e.response.tool_calls), e.outcomes)
               IN IF r.threw THEN [state |-> st, failure |-> "tools", ended |-> TRUE]
                  ELSE RunAloneFrom(AfterToolStep(st, e.response, r.results), trace, i + 1)
          ELSE [state |-> AfterFinalStep(st, e.response), failure |-> "none", ended |-> TRUE]

RunAlone(s, trace) == RunAloneFrom(PairNewState(s), trace, 1)

\* ------------------------------------- the main/sub-agent workflow, run
\* createAgentWorkflow: START -> mainAgent, mainAgent -> subAgent or END on
\* shouldContinue, subAgent -> mainAgent
\* processUserInput: the conversation so far and the new HumanMessage
AgentsInvoke ==
  /\ workflowRun.pc \in {"new", "END", "failed"}
  /\ workflowRun.turns < MaxTurns
  /\ workflowRun' = [NewWorkflowRun EXCEPT
       !.pc = "mainAgent",
       !.conversation = workflowRun.conversation,
       !.turns = workflowRun.turns + 1,
       !.ids = workflowRun.ids,
       !.state = AgentsState(workflowRun.conversation.messages \o <<HumanMessage>>,
                             <<>>, <<>>, workflowRun.conversation.agentType)]

\* mainAgent up to the await of llmWithTools.invoke
MainAgentPrepare ==
  /\ workflowRun.pc = "mainAgent"
  /\ LET prepared == MainAgentMessages(workflowRun.state)
     IN workflowRun' = [workflowRun EXCEPT
          !.prepared = prepared,
          !.pc = IF prepared.threw THEN "failed" ELSE "llm",
          !.failure = IF prepared.threw THEN "reconcile" ELSE "none"]

\* the model answers and mainAgent returns its update, which the graph merges
MainAgentRespond ==
  /\ workflowRun.pc = "llm"
  /\ \E resp \in Responses(workflowRun.ids + 1) :
       /\ IsAIWithTools(resp) => workflowRun.rounds < MaxRounds
       /\ LET st == workflowRun.state
              update == IF IsAIWithTools(resp) THEN <<resp>>
                        ELSE MessagesToReturn(workflowRun.prepared, resp)
          IN workflowRun' = [workflowRun EXCEPT
               !.pc = "edge",
               !.update = update,
               !.steps = Append(@, IF IsAIWithTools(resp) THEN "mainAgent:tools"
                                   ELSE "mainAgent:final"),
               !.rounds = IF IsAIWithTools(resp) THEN @ + 1 ELSE @,
               !.ids = @ + Len(resp.tool_calls),
               !.state = IF IsAIWithTools(resp)
                         THEN AgentsState(messagesReducer(st.messages, update),
                                          ToolCallsToExecute(resp.tool_calls), <<>>, "sub")
                         ELSE AgentsState(messagesReducer(st.messages, update),
                                          st.toolCalls, <<>>, "main")]

\* llmWithTools.invoke rejects
MainAgentModelFail ==
  /\ workflowRun.pc = "llm"
  /\ workflowRun' = [workflowRun EXCEPT !.pc = "failed", !.failure = "model"]

\* the conditional edge behind mainAgent; at END invoke returns and
\* processUserInput stores the final state
AgentsEdge ==
  /\ workflowRun.pc = "edge"
  /\ workflowRun' =
       IF ShouldContinueAgents(workflowRun.state) = "subAgent"
       THEN [workflowRun EXCEPT !.pc = "subAgent"]
       ELSE [workflowRun EXCEPT !.pc = "END", !.conversation = workflowRun.state]

\* subAgent: every pending tool call is executed; the edge leads to mainAgent
SubAgentRun ==
  /\ workflowRun.pc = "subAgent"
  /\ \E o \in OutcomesFor(workflowRun.state.toolCalls) :
       LET st == workflowRun.state
           r == ExecuteTools(st.toolCalls, o)
       IN workflowRun' =
            IF r.threw
            THEN [workflowRun EXCEPT !.pc = "failed", !.failure = "tools"]
            ELSE [workflowRun EXCEPT
                    !.pc = "mainAgent",
                    !.steps = Append(@, "subAgent"),
                    !.state = AgentsState(st.messages, <<>>, r.results, "main")]

NextAgents ==
  /\ \/ AgentsInvoke
     \/ MainAgentPrepare
     \/ MainAgentRespond
     \/ MainAgentModelFail
     \/ AgentsEdge
     \/ SubAgentRun
  /\ UNCHANGED <<conversationState, state, pc, allMessages, response, recon, exec, failure,
                 turn, rounds, nextId, turnReqIds, lastHadTools, turnStart, streamVars,
                 mainRecon, toolRuns, registryVars, pairVars>>

SpecAgents == Init /\ [][NextAgents]_vars

\* ------------------------------------------------------------------ claims
\* every tool-call request of every AIMessage has a ToolMessage with its id
Settled(messages) == RequestedIds(messages) \ {NoId} \subseteq AnsweredIds(messages)

\* message list `messages` shows the call `id` and, after it, its result
ShowsCallAndResult(messages, id) ==
  \E i \in 1..Len(messages) :
     /\ messages[i].type = "ai"
     /\ \E k \in 1..Len(messages[i].tool_calls) : messages[i].tool_calls[k].id = id
     /\ \E j \in (i + 1)..Len(messages) :
          IsToolMessage(messages[j]) /\ messages[j].tool_call_id = id

HasUnregistered(calls) == \E i \in 1..Len(calls) : calls[i].name \notin Registered

\* C1: whenever the workflow reaches END (DONE), after any number of tool-call
\* rounds, every tool-call request id of every AIMessage in the history has a
\* ToolMessage with that tool_call_id in the history.
C1_DoneHistoryIsSettled == pc = "done" => Settled(state.messages)

C3_ModelSeesEveryEarlierCall ==
  pc = "llm" => \A id \in turnReqIds : ShowsCallAndResult(allMessages, id)

\* C4: the workflow reaches END only right after a step whose response carried
\* no tool calls; a step whose response carried tool calls goes back to the
\* agent node (unless the turn fails).
C4_DoneOnlyAfterPlainResponse ==
  /\ pc = "done" => ~lastHadTools /\ ~IsAIWithTools(response)
  /\ (pc = "route" /\ lastHadTools) => ShouldContinue(state) = "continue"

\* C4 witness: END reached in a turn that ran two tool-call steps.
C4_Witness == pc = "done" /\ rounds = 2 /\ ~lastHadTools

\* C5: a call whose name is not registered is recorded as {name, result:
\* {error}} and the rest of the batch is executed; executeTools does not
\* throw and does not skip the record.
C5_UnregisteredIsRecorded ==
  \A i \in 1..Len(exec.calls) :
    exec.calls[i].name \notin Registered =>
      /\ ~exec.threw
      /\ Len(exec.results) = Len(exec.calls)
      /\ exec.results[i].name = exec.calls[i].name
      /\ exec.results[i].result.kind = "err"

\* C6: a tool that throws is recorded as {name, result: {error}} for that call
\* only; every sibling call is executed and recorded and executeTools returns.
C6_ThrowIsRecordedPerCall ==
  \A i \in 1..Len(exec.calls) :
    (exec.calls[i].name \in Registered /\ exec.outcomes[i] = "throw") =>
      /\ ~exec.threw
      /\ Len(exec.results) = Len(exec.calls)
      /\ exec.results[i].name = exec.calls[i].name
      /\ exec.results[i].result.kind = "err"
      /\ \A j \in 1..Len(exec.calls) :
           (exec.calls[j].name \in Registered /\ exec.outcomes[j] # "throw") =>
             exec.results[j] = [name |-> exec.calls[j].name,
                                result |-> ToolReturns(exec.calls[j].name)]

\* C7: executeTools returns a list as long as its input whose i-th record has
\* the name of the i-th call.
C7_ResultsMatchCalls ==
  /\ ~exec.threw
  /\ Len(exec.results) = Len(exec.calls)
  /\ \A i \in 1..Len(exec.calls) : exec.results[i].name = exec.calls[i].name

\* C8: when the model asks for a tool that is not registered the step does not
\* fail: the turn goes on to another model invocation that sees the error
\* content, and reaches END.
C8_UnregisteredToolDoesNotFailTurn ==
  HasUnregistered(exec.calls) => (failure # "tools" /\ pc \notin {"failed", "stopped"})

\* C9: a turn that does not complete leaves conversationState as it was when
\* the turn started; conversationState is only ever replaced by the final
\* state of a workflow run that completed.
C9_FailedTurnKeepsStoredState ==
  /\ [](pc \in {"failed", "stopped"} => conversationState = turnStart)
  /\ [][conversationState' # conversationState =>
          (pc = "done" /\ conversationState' = state)]_vars

\* C9 witness: a second turn failed at the model call after a tool-call step
\* had appended to the running history; the stored history is the first turn's.
C9_Witness ==
  /\ pc = "stopped"
  /\ turn = 2
  /\ failure = "model"
  /\ rounds >= 1
  /\ Len(state.messages) > Len(conversationState.messages) + 1
  /\ Len(conversationState.messages) > 0

\* C10: a step that starts from a history with an unanswered tool call, with
\* neither pending tool calls nor tool results in the state, fails the turn
\* and does not invoke the model.
C10_DanglingCallFailsTheStep ==
  [][(/\ pc = "agent"
      /\ ~Settled(state.messages)
      /\ state.toolCalls = <<>>
      /\ state.toolResults = <<>>)
       => (pc' = "failed" /\ failure' \in {"reconcile", "validate"})]_vars

\* C10 witness: such a step was taken and the turn failed in getMessageList.
C10_Witness ==
  /\ pc = "failed"
  /\ failure = "reconcile"
  /\ ~Settled(state.messages)
  /\ state.toolCalls = <<>>
  /\ state.toolResults = <<>>

\* index of the last AIMessage with tool calls in `messages`, 0 when none
LastAIWithToolsIndex(messages) ==
  LET S == {i \in 1..Len(messages) : IsAIWithTools(messages[i])}
  IN IF S = {} THEN 0 ELSE SetMax(S)

\* the list processMessages returned for the state of the reconciler run
ReconciledHistory ==
  [k \in 1..Len(recon.refs) |-> Deref(state.messages, recon.newToolMessages, recon.refs[k])]

\* the state under reconciliation: the last AIMessage with tool calls asks
\* for two calls, none answered in the history; one record; nothing pending
PartialBatch ==
  LET i == LastAIWithToolsIndex(state.messages)
  IN /\ i > 0
     /\ Len(state.messages[i].tool_calls) = 2
     /\ \A k \in 1..2 : state.messages[i].tool_calls[k].id \notin AnsweredIds(state.messages)
     /\ Len(state.toolResults) = 1
     /\ state.toolCalls = <<>>

\* C11: reconciling a history whose most recent AIMessage asks for two tool
\* calls, with exactly one tool result record and no pending tool calls,
\* reports an inconsistency (logger.error, not the in-flight warning) and the
\* list for the model leaves that AIMessage out.
C11_PartialBatchIsReportedAsError ==
  (pc \in {"reconciled", "threw"} /\ PartialBatch) =>
    LET i == LastAIWithToolsIndex(state.messages)
    IN /\ i \in recon.errored
       /\ i \notin recon.warned
       /\ <<"h", i>> \notin Range(recon.refs)

\* every request of every AIMessage has exactly one ToolMessage, after it
SettledAfter(messages) ==
  \A i \in 1..Len(messages) :
    \A k \in 1..Len(messages[i].tool_calls) :
      /\ Cardinality({j \in 1..Len(messages) :
            IsToolMessage(messages[j])
              /\ messages[j].tool_call_id = messages[i].tool_calls[k].id}) = 1
      /\ \E j \in (i + 1)..Len(messages) :
            IsToolMessage(messages[j])
              /\ messages[j].tool_call_id = messages[i].tool_calls[k].id

\* the ToolMessages of every AIMessage follow it directly, in request order
SettledInOrder(messages) ==
  \A i \in 1..Len(messages) :
    \A k \in 1..Len(messages[i].tool_calls) :
      /\ i + k <= Len(messages)
      /\ IsToolMessage(messages[i + k])
      /\ messages[i + k].tool_call_id = messages[i].tool_calls[k].id

RECURSIVE ConcatDeltas(_)
ConcatDeltas(evs) ==
  IF evs = <<>> THEN ""
  ELSE (IF Head(evs).kind = "delta" THEN Head(evs).content ELSE "") \o ConcatDeltas(Tail(evs))

DeltaCount(evs) == Cardinality({i \in 1..Len(evs) : evs[i].kind = "delta"})

\* C13: on the stream of the chat route, for any conversation sent with the
\* request, the update of a step whose response carries tool calls puts no
\* event on the stream; in a turn of one tool-call step and a final answer
\* exactly one delta is sent, by the update of the final-answer step.
C13_NoDeltaDuringToolCallStep ==
  [][/\ (pc = "route" /\ lastHadTools) => events' = events
     /\ (pc = "route" /\ ~lastHadTools /\ rounds = 1) =>
          (DeltaCount(events') = 1 /\ events' = Append(events, events'[Len(events')]))]_vars

\* C14: when a streamed turn completes, the delta texts joined in order are
\* the content of the final answer of that turn, whatever conversation came
\* with the request and however many tool-call steps the turn took.
C14_DeltasAddUpToFinalAnswer ==
  (pc = "closed" /\ failure = "none") => ConcatDeltas(events) = response.content

\* C15: when a streamed turn fails, before the stream exists or while the
\* workflow is streamed, the events end with the error event followed by the
\* [DONE] sentinel.
C15_FailureEndsWithErrorThenDone ==
  (pc = "closed" /\ failure # "none") =>
    /\ Len(events) >= 2
    /\ events[Len(events) - 1] = ErrorEvent
    /\ events[Len(events)] = DoneEvent

\* C16: a closed stream holds delta, message and error events followed by
\* exactly one [DONE] sentinel, nothing behind the sentinel, and the message
\* event behind every delta.
C16_StreamIsEventsThenOneDone ==
  pc = "closed" =>
    /\ Len(events) >= 1
    /\ events[Len(events)] = DoneEvent
    /\ \A i \in 1..(Len(events) - 1) : events[i].kind \in {"delta", "message", "error"}
    /\ \A i, j \in 1..Len(events) :
         (events[i].kind = "message" /\ events[j].kind = "delta") => j < i

\* C17: the text a completed turn of the chat session returns is the content
\* of the AIMessage without tool calls that the turn appended last; it is
\* never taken from a message the history held before the turn.
C17_ReturnedTextIsThisTurnsAnswer ==
  pc = "done" =>
    LET i == ExtractAIResponseIndex(state.messages)
    IN /\ i = Len(state.messages)
       /\ i > Len(turnStart.messages) + 1
       /\ state.messages[i] = response
       /\ ~IsAIWithTools(state.messages[i])
       /\ ExtractAIResponse(state) = Text(response.content)

\* C17 witness: a second turn with a tool-call step completed; the history
\* holds the first turn's answer ahead of this turn's.
C17_Witness ==
  /\ pc = "done"
  /\ turn = 2
  /\ rounds = 1
  /\ \E j \in 1..Len(turnStart.messages) :
       state.messages[j].type = "ai" /\ state.messages[j].tool_calls = <<>>
  /\ ExtractAIResponseIndex(state.messages) = Len(state.messages)

IsPrefix(a, b) == Len(a) <= Len(b) /\ SubSeq(b, 1, Len(a)) = a

\* C18: the history only grows: across every step the messages of the run
\* before the step are a prefix of the messages after it, and the history a
\* completed turn stores starts with the history stored before the turn
\* followed by the new HumanMessage.
C18_HistoryIsAppendOnly ==
  [][/\ IsPrefix(state.messages, state'.messages)
     /\ IsPrefix(conversationState.messages, conversationState'.messages)
     /\ (pc = "done" /\ pc' = "idle") =>
          IsPrefix(turnStart.messages \o <<HumanMessage>>, conversationState'.messages)]_vars

\* C18 witness: a second turn with a tool-call step completed and was stored
\* on top of the first turn's history.
C18_Witness ==
  /\ pc = "idle"
  /\ turn = 2
  /\ rounds = 1
  /\ Len(turnStart.messages) > 0
  /\ Len(conversationState.messages) > Len(turnStart.messages) + 2
  /\ conversationState = state

\* C19: toolCalls and toolResults of the state are both empty in the state a
\* turn starts with and in the state with which the workflow reaches END.
C19_ScratchEmptyAtTurnBoundaries ==
  /\ [](pc = "done" => (state.toolCalls = <<>> /\ state.toolResults = <<>>))
  /\ [][(pc = "idle" /\ pc' = "agent") =>
          (state'.toolCalls = <<>> /\ state'.toolResults = <<>>)]_vars

\* C19 witness: END reached in a turn whose tool-call step had put records
\* into toolResults.
C19_Witness ==
  /\ pc = "done"
  /\ rounds = 1
  /\ Len(exec.results) = 2
  /\ state.toolResults = <<>>
  /\ state.toolCalls = <<>>

\* C20: the model invocation of a step that follows a tool-call step starts
\* only when executeTools has returned a record for every call the earlier
\* response requested and the step's update is in the state; while a model
\* invocation or a tool batch is under way no other invocation starts.
C20_NextInvocationAfterAllTools ==
  [][/\ (pc' = "llm" /\ lastHadTools) =>
          /\ pc = "agent"
          /\ exec.calls = ToolCallsToExecute(response.tool_calls)
          /\ ~exec.threw
          /\ Len(exec.results) = Len(response.tool_calls)
          /\ Len(exec.executed) = Len(response.tool_calls)
          /\ state.toolResults = exec.results
     /\ pc \in {"llm", "tools"} => pc' \notin {"llm", "agent"}]_vars

\* C20 witness: a second model invocation is under way behind a step that
\* ran a batch of two tool calls.
C20_Witness ==
  /\ pc = "llm"
  /\ lastHadTools
  /\ rounds = 1
  /\ Len(response.tool_calls) = 2
  /\ Len(exec.executed) = 2

Min(a, b) == IF a <= b THEN a ELSE b

\* C25: createToolMessages gives the i-th record the id of the i-th tool call
\* of the last AIMessage with tool calls in the history; it creates
\* min(#records, #tool calls) ToolMessages and drops the records beyond the
\* tool calls (none when the history has no such AIMessage).
C25_RecordsPairWithLastRequests ==
  pc \in {"reconciled", "threw"} =>
    LET i == LastAIWithToolsIndex(state.messages)
        created == recon.newToolMessages
    IN IF i = 0 THEN created = <<>>
       ELSE /\ Len(created) = Min(Len(state.toolResults), Len(state.messages[i].tool_calls))
            /\ \A k \in 1..Len(created) :
                 /\ created[k].tool_call_id = state.messages[i].tool_calls[k].id
                 /\ created[k].content = Serialize(state.toolResults[k].result)

\* C25 witness: two records met a last AIMessage with one tool call, behind
\* an earlier AIMessage with tool calls; one ToolMessage was created.
C25_Witness ==
  /\ pc \in {"reconciled", "threw"}
  /\ Len(state.toolResults) = 2
  /\ Len(recon.newToolMessages) = 1
  /\ Cardinality({i \in 1..Len(state.messages) : IsAIWithTools(state.messages[i])}) = 2

\* position of the history message i in the list processMessages returned
PositionOf(i) == CHOOSE p \in 1..Len(recon.refs) : recon.refs[p] = <<"h", i>>

RECURSIVE PlainOnly(_)
PlainOnly(messages) ==
  IF messages = <<>> THEN <<>>
  ELSE (IF IsAIWithTools(Head(messages)) \/ IsToolMessage(Head(messages))
        THEN <<>> ELSE <<Head(messages)>>) \o PlainOnly(Tail(messages))

\* C27: SystemMessages, HumanMessages and AIMessages without tool calls pass
\* through processMessages unchanged: the returned list restricted to them is
\* the history restricted to them, whatever the batch and the flags are.
C27_PlainMessagesPassThrough ==
  pc = "reconciled" => PlainOnly(ReconciledHistory) = PlainOnly(state.messages)

\* C27 witness: a history with plain messages on both sides of an AIMessage
\* that was left out came back with both of them.
C27_Witness ==
  /\ pc = "reconciled"
  /\ recon.warned # {}
  /\ Len(PlainOnly(state.messages)) = 2
  /\ ~IsAIWithTools(state.messages[1])
  /\ IsAIWithTools(state.messages[2])
  /\ PlainOnly(ReconciledHistory) = PlainOnly(state.messages)

\* no two ToolMessages of `messages` carry the same tool_call_id
NoDuplicateToolIds(messages) ==
  \A i, j \in 1..Len(messages) :
    (IsToolMessage(messages[i]) /\ IsToolMessage(messages[j])
       /\ messages[i].tool_call_id = messages[j].tool_call_id) => i = j

\* C28: the list for the model never holds two ToolMessages with the same
\* tool_call_id, neither the one getMessageList builds nor the one mainAgent
\* builds; a ToolMessage created from a record of the state is in the list
\* once.
C28_NoToolResultTwice ==
  pc = "reconciled" =>
    /\ NoDuplicateToolIds(recon.messages)
    /\ NoDuplicateToolIds(mainRecon.messages)

\* every ToolMessage of `messages` answers a tool call of an AIMessage that
\* stands before it in `messages`
Anchored(messages) ==
  \A j \in 1..Len(messages) :
    IsToolMessage(messages[j]) =>
      \E i \in 1..(j - 1) :
        /\ messages[i].type = "ai"
        /\ \E k \in 1..Len(messages[i].tool_calls) :
             messages[i].tool_calls[k].id = messages[j].tool_call_id

\* C29: every ToolMessage in the list for the model answers a tool call of an
\* AIMessage that is in the list before it; a ToolMessage whose AIMessage was
\* left out is left out too (getMessageList and mainAgent alike).
C29_ToolResultsHaveTheirRequest ==
  pc = "reconciled" => (Anchored(recon.messages) /\ Anchored(mainRecon.messages))

\* C30: when a turn reaches END, every record executeTools produced in the
\* turn (one for every tool call requested in it, or the turn would have
\* failed) is in the history as a ToolMessage with the call's id and the
\* serialized result, also the records of a tool-call step that was followed
\* by another tool-call step.
C30_EveryRecordBecomesAToolMessage ==
  pc = "done" =>
    \A id \in turnReqIds :
      \E j \in 1..Len(state.messages) :
        /\ IsToolMessage(state.messages[j])
        /\ state.messages[j].tool_call_id = id
        /\ state.messages[j].content \in {Serialize(ToolReturns(name)) : name \in Registered}

\* C22: over a session no tool call is executed twice: executeTools invokes
\* tool.execute once for a call of its input, also when the tool throws, and
\* a later step executes only the calls of its own response; every executed
\* call was requested by the model.
C22_EachCallExecutedAtMostOnce ==
  /\ \A a, b \in 1..Len(toolRuns) : toolRuns[a] = toolRuns[b] => a = b
  /\ \A a \in 1..Len(toolRuns) : toolRuns[a] \in 1..(nextId - 1)
  /\ pc \in {"route", "agent", "llm", "done"} /\ lastHadTools =>
       \A k \in 1..Len(response.tool_calls) :
         \E a \in 1..Len(toolRuns) : toolRuns[a] = response.tool_calls[k].id

\* C22 witness: a turn failed in its second batch of tool calls, where the
\* second tool of the batch threw; the calls of both batches ran once.
C22_Witness ==
  /\ pc = "failed"
  /\ failure = "tools"
  /\ rounds = 2
  /\ Len(exec.calls) = 2
  /\ exec.outcomes = <<"ok", "throw">>
  /\ Len(toolRuns) = 4

\* C23: when every model invocation and every tool execution settles and the
\* model gives a response without tool calls after at most MaxRounds
\* responses with tool calls, a running turn reaches END or fails; the
\* workflow does not stay in a step for ever.
C23_RunningTurnEnds ==
  (pc \in RunningPoints) ~> (pc \in {"done", "failed"})

\* C23 witness: a turn reached END behind two tool-call steps of two calls.
C23_Witness ==
  /\ pc = "done"
  /\ rounds = 2
  /\ Len(toolRuns) = 4
  /\ failure = "none"

\* the tool registered last under `name` among the first n registrations
LastRegistered(name, n) ==
  LET S == {i \in 1..n : registerLog[i].name = name}
  IN IF S = {} THEN NotFound ELSE registerLog[SetMax(S)]

\* C24: after any sequence of register calls, get(name) returns the tool
\* registered last under exactly that name and undefined for a name never
\* registered; registering a present name replaces the entry, and the
\* registry holds one entry per registered name.
C24_GetReturnsLastRegistered ==
  /\ got.result = LastRegistered(got.name, got.at)
  /\ \A name \in RegistryNames :
       RegistryGet(tools, name) = LastRegistered(name, Len(registerLog))
  /\ \A i, j \in 1..Len(tools) : tools[i].name = tools[j].name => i = j
  /\ {tools[i].name : i \in 1..Len(tools)} = {registerLog[i].name : i \in 1..Len(registerLog)}

\* C24 witness: a name was registered twice with different tools, another
\* name once, and get of the first name returned the second tool.
C24_Witness ==
  /\ registerLog = <<Tool("search", "first"), Tool("Search", "first"), Tool("search", "second")>>
  /\ got = [name |-> "search", result |-> Tool("search", "second"), at |-> 3]
  /\ Len(tools) = 2

AppendedOrAttached(refs, newToolMessages, j) ==
  /\ <<"n", j>> \in Range(refs)
  /\ \A p \in 1..Len(refs) :
       (refs[p] = <<"n", j>>
          /\ ~\E q \in 1..Len(refs) :
                /\ refs[q][1] = "h"
                /\ IsAIWithTools(state.messages[refs[q][2]])
                /\ \E k \in 1..Len(state.messages[refs[q][2]].tool_calls) :
                     state.messages[refs[q][2]].tool_calls[k].id
                       = newToolMessages[j].tool_call_id)
       => \A q \in (p + 1)..Len(refs) : refs[q][1] = "n"

\* C32: every ToolMessage created from a record of the state is in the list
\* for the model; one that found no AIMessage to stand behind is at the end
\* of the list (getMessageList and mainAgent alike).
C32_LeftoverResultsAreAppended ==
  pc = "reconciled" =>
    /\ \A j \in 1..Len(recon.newToolMessages) :
         AppendedOrAttached(recon.refs, recon.newToolMessages, j)
    /\ \A j \in 1..Len(mainRecon.newToolMessages) :
         AppendedOrAttached(mainRecon.refs, mainRecon.newToolMessages, j)

\* the AIMessages with tool calls of the history none of whose calls has a
\* ToolMessage in the history
UnresolvedAI(messages) ==
  {i \in 1..Len(messages) :
     /\ IsAIWithTools(messages[i])
     /\ \A k \in 1..Len(messages[i].tool_calls) :
          messages[i].tool_calls[k].id \notin AnsweredIds(messages)}

\* C33: with two AIMessages in the history whose tool calls have no
\* ToolMessage and records in the state, the new ToolMessages carry ids of
\* the most recent one only, and the older one is left out of the list and
\* reported with logger.error.
C33_OlderUnresolvedIsAnError ==
  (pc \in {"reconciled", "threw"}
     /\ Cardinality(UnresolvedAI(state.messages)) >= 2
     /\ Len(state.toolResults) > 0) =>
    LET last == SetMax(UnresolvedAI(state.messages))
    IN /\ \A j \in 1..Len(recon.newToolMessages) :
            \E k \in 1..Len(state.messages[last].tool_calls) :
              state.messages[last].tool_calls[k].id = recon.newToolMessages[j].tool_call_id
       /\ \A i \in UnresolvedAI(state.messages) \ {last} :
            /\ <<"h", i>> \notin Range(recon.refs)
            /\ i \in recon.errored

\* C38: for every state, mainAgent and getMessageList build the same list for
\* the model: the same messages in the same order, each as often.
C38_BothReconcilersBuildTheSameList ==
  (pc = "reconciled" /\ ~mainRecon.threw) => mainRecon.messages = recon.messages

\* the ToolMessage msg is one of the history, or has the id of the call of
\* the last AIMessage with tool calls at the position of a record and that
\* record's serialized result
FromHistoryOrRecord(msg) ==
  \/ msg \in Range(state.messages)
  \/ LET i == LastAIWithToolsIndex(state.messages)
     IN /\ i > 0
        /\ \E k \in 1..Min(Len(state.toolResults), Len(state.messages[i].tool_calls)) :
             /\ msg.tool_call_id = state.messages[i].tool_calls[k].id
             /\ msg.content = Serialize(state.toolResults[k].result)

\* the tool-call ids of the history with no ToolMessage in the history and no
\* record at the position of the call
Unanswerable ==
  LET i == LastAIWithToolsIndex(state.messages)
      batch == IF i = 0 THEN {}
               ELSE {state.messages[i].tool_calls[k].id :
                       k \in 1..Min(Len(state.toolResults), Len(state.messages[i].tool_calls))}
  IN (RequestedIds(state.messages) \ {NoId}) \ (AnsweredIds(state.messages) \cup batch)

\* C35: every ToolMessage in the list for the model is a ToolMessage of the
\* history or was created from a record of the state for the call at the
\* record's position; a tool call without either has no ToolMessage in the
\* list (getMessageList and mainAgent alike).
C35_NoResultIsSynthesized ==
  pc = "reconciled" =>
    /\ \A p \in 1..Len(recon.messages) :
         IsToolMessage(recon.messages[p]) => FromHistoryOrRecord(recon.messages[p])
    /\ \A p \in 1..Len(mainRecon.messages) :
         IsToolMessage(mainRecon.messages[p]) => FromHistoryOrRecord(mainRecon.messages[p])
    /\ Unanswerable \cap (AnsweredIds(recon.messages) \cup AnsweredIds(mainRecon.messages)) = {}

\* C35 witness: the last AIMessage asks for two calls, one record came back;
\* the list holds no ToolMessage for the second call.
C35_Witness ==
  /\ pc = "reconciled"
  /\ PartialBatch
  /\ Unanswerable # {}
  /\ Len(recon.newToolMessages) = 1
  /\ AnsweredIds(mainRecon.messages) # {}

\* the ids the claim calls missing: asked for by an AIMessage of the list,
\* carried by no ToolMessage of the list
MissingToolCallIds(messages) ==
  {id \in RequestedIds(messages) \ {NoId} :
     ~\E j \in 1..Len(messages) : IsToolMessage(messages[j]) /\ messages[j].tool_call_id = id}

\* C39: validateToolCalls reports exactly the tool-call ids of the list that
\* no ToolMessage of the list carries, and the list processMessages returns
\* has none: the validation before the model call never fails.
C39_ProcessedListPassesValidation ==
  /\ ValidateToolCalls(state.messages) = MissingToolCallIds(state.messages)
  /\ pc = "reconciled" =>
       /\ ValidateToolCalls(recon.messages) = {}
       /\ ~GetLLMWithToolsThrows(recon.messages)

\* C39 witness: the history fails the validation with two ids, the list
\* processMessages made of it passes.
C39_Witness ==
  /\ pc = "reconciled"
  /\ Cardinality(ValidateToolCalls(state.messages)) = 2
  /\ ValidateToolCalls(recon.messages) = {}

\* C34: in a turn that starts from a history in which every tool call has its
\* ToolMessage, whenever a model invocation has been prepared at most one
\* AIMessage of the history has tool calls without ToolMessages, and
\* processMessages has left no AIMessage out of the list for the model.
C34_LoopKeepsEveryAssistantMessage ==
  (pc = "llm" /\ Settled(turnStart.messages)) =>
    /\ Cardinality(UnresolvedAI(state.messages)) <= 1
    /\ recon.warned = {}
    /\ recon.errored = {}

SystemCount(messages) == Cardinality({i \in 1..Len(messages) : messages[i].type = "system"})

StepsAlternate ==
  LET steps == workflowRun.steps
  IN /\ \A i \in 1..Len(steps) :
          /\ steps[i] = "subAgent" => (i > 1 /\ steps[i - 1] = "mainAgent:tools")
          /\ (steps[i] = "mainAgent:tools" /\ i < Len(steps)) => steps[i + 1] = "subAgent"
          /\ (steps[i] = "subAgent" /\ i < Len(steps)) =>
               steps[i + 1] \in {"mainAgent:tools", "mainAgent:final"}
          /\ steps[i] = "mainAgent:final" => i = Len(steps)
     /\ (Len(steps) > 0 /\ steps[Len(steps)] = "mainAgent:tools") =>
          workflowRun.pc \in {"edge", "subAgent", "failed"}
     /\ (Len(steps) > 0 /\ steps[Len(steps)] = "subAgent") =>
          /\ workflowRun.pc \in {"mainAgent", "llm", "failed"}
          /\ workflowRun.state.toolCalls = <<>>
     /\ workflowRun.pc = "subAgent" =>
          (Len(steps) > 0 /\ steps[Len(steps)] = "mainAgent:tools")

\* C37: in the main/sub-agent workflow subAgent runs once behind every
\* mainAgent step whose response has tool calls and never otherwise, every
\* subAgent step is followed by a mainAgent step, the workflow ends only
\* behind a mainAgent step that leaves toolCalls empty, and subAgent leaves
\* toolCalls empty.
C37_SubAgentRunsBehindEveryToolResponse ==
  /\ StepsAlternate
  /\ workflowRun.pc = "END" =>
       /\ workflowRun.steps[Len(workflowRun.steps)] = "mainAgent:final"
       /\ workflowRun.state.toolCalls = <<>>

\* C37 witness: mainAgent, subAgent, mainAgent, subAgent, mainAgent, END
C37_Witness ==
  /\ workflowRun.pc = "END"
  /\ workflowRun.steps = <<"mainAgent:tools", "subAgent", "mainAgent:tools", "subAgent",
                           "mainAgent:final">>

\* the last n messages of `messages`
LastMessages(messages, n) == SubSeq(messages, Len(messages) - n + 1, Len(messages))

\* Node.handleFinalResponse: behind a response without tool calls the history
\* ends with the ToolMessages of the records of the step before and the
\* response, and the state has no records
NodeFinalStepAppendsRecords ==
  (pc = "route" /\ ~lastHadTools) =>
    LET created == CreateToolMessages(exec.results, FindLastAIMessageWithTools(state.messages))
    IN /\ Len(state.messages) > Len(created)
       /\ LastMessages(state.messages, Len(created) + 1) = created \o <<response>>
       /\ state.toolResults = <<>>

\* mainAgent: the update of a response without tool calls holds the
\* ToolMessages made of the records of the state and the response
MainAgentFinalStepAppendsRecords ==
  (workflowRun.pc \in {"edge", "END"}
     /\ workflowRun.steps # <<>>
     /\ workflowRun.steps[Len(workflowRun.steps)] = "mainAgent:final") =>
    LET messages == workflowRun.state.messages
    IN /\ workflowRun.update
            = workflowRun.prepared.newToolMessages \o <<messages[Len(messages)]>>
       /\ ~IsAIWithTools(messages[Len(messages)])
       /\ workflowRun.state.toolResults = <<>>

\* C31: on a step whose response has no tool calls, the messages appended to
\* the history are the ToolMessages made of the records still in the state,
\* in the order of the requests, and then the response; afterwards the state
\* has no records (handleFinalResponse of Node and mainAgent alike).
C31_FinalStepAppendsRecordsThenResponse ==
  /\ NodeFinalStepAppendsRecords
  /\ MainAgentFinalStepAppendsRecords
====
